---- MODULE Spec2Model ----
(***************************************************************************)
(* Productivity Tracker: the client timer state machine, the local store,  *)
(* the project list and session log, and the merge of the remote day       *)
(* document, modelled from the application script.                         *)
(*                                                                         *)
(* Time is counted in units of 1/Res second.  Date.now() is the variable   *)
(* now; setInterval and setTimeout callbacks fire exactly when they are    *)
(* due, and the clock only advances when no callback is due.               *)
(***************************************************************************)
EXTENDS Integers, Sequences, FiniteSets, TLC

\* ------------------------------------------------------------------------
\* Bounds of the model
\* ------------------------------------------------------------------------
Res == 2                \* clock units per second
MaxUptime == 8          \* clock units the model runs for
MaxBoots == 2           \* restarts of the process
MaxSessions == 2        \* length of the session log
MaxIntervals == 2       \* live setInterval handles
MinDuration == 2        \* the configured CONFIG.MIN_SESSION_DURATION, seconds
MaxIds == 3             \* generateId() calls

\* ------------------------------------------------------------------------
\* Program constants
\* ------------------------------------------------------------------------
DefaultPomodoro == 1500                 \* 25 * 60
HoldSeconds == 3                        \* setTimeout(..., 3000)
HistoryDays == 30                       \* loadHistoryFromAWS(30)
StaleSeconds == 86400                   \* 24 * 60 * 60 (* 1000 ms)
Epoch0 == (1000 * 86400 + 43200) * Res  \* Date.now() when the model starts:
                                        \* noon of day 1000

\* What can go wrong in one HTTP exchange with the remote adapter: fetch
\* rejects, the status is not 2xx, the body is not JSON.
NoFault == "none"
Faults == { NoFault, "network", "status500", "badJson" }

Null == "<null>"                        \* JS null for a string-valued field
NullTime == -1                          \* JS null for a number-valued field

\* The pomodoro buttons: work durations (0 is free mode) and break durations,
\* in seconds.
WorkDurations == {0, 1}
BreakDurations == {1}

\* Gaps between the end of one process and the start of the next, in units.
RestartGaps == {3600 * Res, StaleSeconds * Res, StaleSeconds * Res + 1}

\* The projects whose buttons the user clicks.
Clickable == {"proj1", "proj2"}

DEFAULT_PROJECTS ==
  << [id |-> "proj1", name |-> "Work Project", color |-> "#00ff88"],
     [id |-> "proj2", name |-> "Side Project", color |-> "#ff6b35"],
     [id |-> "proj3", name |-> "Learning",     color |-> "#00d4ff"] >>

VARIABLES
  state,          \* the script's state object
  localStorage,   \* pt_recovery, pt_sessions, pt_projects
  intervals,      \* live setInterval handles: [id, kind, due]
  timeouts,       \* pending display-hold setTimeout callbacks: [kind, due]
  now,            \* Date.now(), in units
  uptime,         \* units the clock was advanced one by one
  bootLog,        \* what checkRecoveryState found at each restart so far
  s3,             \* the remote store: the day documents, by date
  rnd,            \* number of generateId() calls so far
  ranUnits,       \* measure: units the current run has spent running (not
                  \* paused) since it was started afresh; -1 when no run
  reply,          \* what the last remote call gave back to its caller
  stats,          \* what the last getStats() call returned
  discarded       \* measure: the last step was a startTimer call that
                  \* discarded a run on another target that had reached
                  \* the minimum duration

vars == << state, localStorage, intervals, timeouts, now, uptime, bootLog,
           s3, rnd, ranUnits, reply, stats, discarded >>

\* ------------------------------------------------------------------------
\* Helpers
\* ------------------------------------------------------------------------
Num(t) == IF t = NullTime THEN 0 ELSE t          \* null coerces to 0

getToday(t) == t \div (86400 * Res)              \* UTC calendar day number

GenIds == << "g1", "g2", "g3", "g4", "g5", "g6" >>
generateId(n) == GenIds[n + 1]

ProjectIds(ps) == { ps[i].id : i \in 1..Len(ps) }

NoReply == [ op |-> "none", fault |-> NoFault, value |-> << >> ]

initialState ==
  [ projects |-> << >>, sessions |-> << >>,
    activeTimer |-> Null, startTime |-> NullTime, elapsedSeconds |-> 0,
    timerInterval |-> 0, isPaused |-> FALSE, pausedElapsed |-> 0,
    pomodoroMode |-> TRUE, pomodoroDuration |-> DefaultPomodoro,
    pomodoroRemaining |-> 0 ]

\* The world an operation works on: the state object, the local storage, the
\* browser's timers and the random source.
World == [ st |-> state, ls |-> localStorage, iv |-> intervals,
           to |-> timeouts, rnd |-> rnd ]

clearInterval(iv, h) == { i \in iv : i.id # h }

FreshHandle(iv) == CHOOSE h \in 1..(Cardinality(iv) + 1) :
                      \A i \in iv : i.id # h

setInterval(w, kind, t) ==
  LET h == FreshHandle(w.iv) IN
  [ w EXCEPT !.iv = @ \cup { [id |-> h, kind |-> kind, due |-> t + Res] },
             !.st.timerInterval = h ]

saveRecoveryState(w, t) ==
  IF w.st.activeTimer = Null
    THEN [ w EXCEPT !.ls.pt_recovery = << >> ]
    ELSE [ w EXCEPT !.ls.pt_recovery =
             << [ activeTimer |-> w.st.activeTimer,
                  startTime |-> w.st.startTime,
                  isPaused |-> w.st.isPaused,
                  pausedElapsed |-> w.st.pausedElapsed,
                  pomodoroMode |-> w.st.pomodoroMode,
                  pomodoroDuration |-> w.st.pomodoroDuration,
                  lastSeen |-> t ] >> ]

saveSessions(w) == [ w EXCEPT !.ls.pt_sessions = << w.st.sessions >> ]

saveProjects(w) == [ w EXCEPT !.ls.pt_projects = << w.st.projects >> ]

pushSession(w, s) ==
  saveSessions([ w EXCEPT !.st.sessions = Append(@, s), !.rnd = @ + 1 ])

\* ------------------------------------------------------------------------
\* Timer functions
\* ------------------------------------------------------------------------
resetTimerFields(st) ==
  [ st EXCEPT !.activeTimer = Null, !.startTime = NullTime,
              !.elapsedSeconds = 0, !.isPaused = FALSE,
              !.pausedElapsed = 0, !.pomodoroRemaining = 0 ]

\* stopTimer with the gate elapsedSeconds > minDuration.
stopTimer_StrictGate(w, save, t) ==
  IF w.st.activeTimer = Null THEN w
  ELSE
    LET w1 == [ w EXCEPT !.ls.pt_recovery = << >>,
                         !.iv = clearInterval(@, w.st.timerInterval) ]
        w2 == IF save /\ w1.st.elapsedSeconds > MinDuration
                THEN pushSession(w1,
                       [ id |-> generateId(w1.rnd),
                         projectId |-> w1.st.activeTimer,
                         startTime |-> Num(w1.st.startTime),
                         endTime |-> t,
                         duration |-> w1.st.elapsedSeconds,
                         date |-> getToday(t),
                         type |-> IF w1.st.activeTimer = "break"
                                    THEN "break" ELSE "work" ])
                ELSE w1
    IN [ w2 EXCEPT !.st = resetTimerFields(@) ]

\* stopTimer pushing the session without saving the log.
stopTimer_NoPersist(w, save, t) ==
  IF w.st.activeTimer = Null THEN w
  ELSE
    LET w1 == [ w EXCEPT !.ls.pt_recovery = << >>,
                         !.iv = clearInterval(@, w.st.timerInterval) ]
        w2 == IF save /\ w1.st.elapsedSeconds >= MinDuration
                THEN [ w1 EXCEPT
                         !.st.sessions = Append(@,
                           [ id |-> generateId(w1.rnd),
                             projectId |-> w1.st.activeTimer,
                             startTime |-> Num(w1.st.startTime),
                             endTime |-> t,
                             duration |-> w1.st.elapsedSeconds,
                             date |-> getToday(t),
                             type |-> IF w1.st.activeTimer = "break"
                                        THEN "break" ELSE "work" ]),
                         !.rnd = @ + 1 ]
                ELSE w1
    IN [ w2 EXCEPT !.st = resetTimerFields(@) ]

stopTimer(w, save, t) ==
  IF w.st.activeTimer = Null THEN w
  ELSE
    LET w1 == [ w EXCEPT !.ls.pt_recovery = << >>,
                         !.iv = clearInterval(@, w.st.timerInterval) ]
        w2 == IF save /\ w1.st.elapsedSeconds >= MinDuration
                THEN pushSession(w1,
                       [ id |-> generateId(w1.rnd),
                         projectId |-> w1.st.activeTimer,
                         startTime |-> Num(w1.st.startTime),
                         endTime |-> t,
                         duration |-> w1.st.elapsedSeconds,
                         date |-> getToday(t),
                         type |-> IF w1.st.activeTimer = "break"
                                    THEN "break" ELSE "work" ])
                ELSE w1
    IN [ w2 EXCEPT !.st = resetTimerFields(@) ]

\* resumeTimer without the test for a paused timer.
resumeTimer_Unguarded(w, t) ==
  IF w.st.activeTimer = Null THEN w
  ELSE
    LET w1 == [ w EXCEPT !.st.isPaused = FALSE,
                         !.st.startTime = t - w.st.pausedElapsed * Res ]
    IN saveRecoveryState(setInterval(w1, "timer", t), t)

resumeTimer(w, t) ==
  IF w.st.activeTimer = Null \/ ~w.st.isPaused THEN w
  ELSE
    LET w1 == [ w EXCEPT !.st.isPaused = FALSE,
                         !.st.startTime = t - w.st.pausedElapsed * Res ]
    IN saveRecoveryState(setInterval(w1, "timer", t), t)

\* startTimer recording the run it replaces.
startTimer_SaveOld(w, projectId, t) ==
  IF w.st.isPaused /\ w.st.activeTimer = projectId THEN resumeTimer(w, t)
  ELSE
    LET w1 == IF w.st.activeTimer # Null THEN stopTimer(w, TRUE, t) ELSE w
        w2 == [ w1 EXCEPT !.st.activeTimer = projectId,
                          !.st.startTime = t,
                          !.st.elapsedSeconds = 0,
                          !.st.isPaused = FALSE,
                          !.st.pausedElapsed = 0 ]
        w3 == IF w2.st.pomodoroMode /\ w2.st.pomodoroDuration > 0
                THEN [ w2 EXCEPT !.st.pomodoroRemaining =
                                     w2.st.pomodoroDuration ]
                ELSE w2
    IN saveRecoveryState(setInterval(w3, "timer", t), t)

startTimer(w, projectId, t) ==
  IF w.st.isPaused /\ w.st.activeTimer = projectId THEN resumeTimer(w, t)
  ELSE
    LET w1 == IF w.st.activeTimer # Null THEN stopTimer(w, FALSE, t) ELSE w
        w2 == [ w1 EXCEPT !.st.activeTimer = projectId,
                          !.st.startTime = t,
                          !.st.elapsedSeconds = 0,
                          !.st.isPaused = FALSE,
                          !.st.pausedElapsed = 0 ]
        w3 == IF w2.st.pomodoroMode /\ w2.st.pomodoroDuration > 0
                THEN [ w2 EXCEPT !.st.pomodoroRemaining =
                                     w2.st.pomodoroDuration ]
                ELSE w2
    IN saveRecoveryState(setInterval(w3, "timer", t), t)

pauseTimer(w) ==
  IF w.st.activeTimer = Null \/ w.st.isPaused THEN w
  ELSE [ w EXCEPT !.iv = clearInterval(@, w.st.timerInterval),
                  !.st.isPaused = TRUE,
                  !.st.pausedElapsed = w.st.elapsedSeconds ]

\* startBreak discarding the run it replaces.
startBreak_NoSave(w, duration, t) ==
  LET w1 == IF w.st.activeTimer # Null THEN stopTimer(w, FALSE, t) ELSE w
      w2 == [ w1 EXCEPT !.st.activeTimer = "break",
                        !.st.startTime = t,
                        !.st.elapsedSeconds = 0,
                        !.st.isPaused = FALSE,
                        !.st.pausedElapsed = 0,
                        !.st.pomodoroMode = TRUE,
                        !.st.pomodoroDuration = duration,
                        !.st.pomodoroRemaining = duration ]
  IN setInterval(w2, "break", t)

startBreak(w, duration, t) ==
  LET w1 == IF w.st.activeTimer # Null
              THEN stopTimer(w, w.st.activeTimer # "break", t)
              ELSE w
      w2 == [ w1 EXCEPT !.st.activeTimer = "break",
                        !.st.startTime = t,
                        !.st.elapsedSeconds = 0,
                        !.st.isPaused = FALSE,
                        !.st.pausedElapsed = 0,
                        !.st.pomodoroMode = TRUE,
                        !.st.pomodoroDuration = duration,
                        !.st.pomodoroRemaining = duration ]
  IN setInterval(w2, "break", t)

\* pomodoroFinished recording only durations of at least minDuration.
pomodoroFinished_Gated(w, t) ==
  LET w1 == [ w EXCEPT !.iv = clearInterval(@, w.st.timerInterval) ]
      w2 == IF w1.st.pomodoroDuration >= MinDuration
              THEN pushSession(w1,
                     [ id |-> generateId(w1.rnd),
                       projectId |-> w1.st.activeTimer,
                       startTime |-> Num(w1.st.startTime),
                       endTime |-> t,
                       duration |-> w1.st.pomodoroDuration,
                       date |-> getToday(t),
                       type |-> "pomodoro" ])
              ELSE w1
  IN [ w2 EXCEPT !.to = @ \cup
         { [ kind |-> "pomodoro", due |-> t + HoldSeconds * Res ] } ]

pomodoroFinished(w, t) ==
  LET w1 == [ w EXCEPT !.iv = clearInterval(@, w.st.timerInterval) ]
      w2 == pushSession(w1,
              [ id |-> generateId(w1.rnd),
                projectId |-> w1.st.activeTimer,
                startTime |-> Num(w1.st.startTime),
                endTime |-> t,
                duration |-> w1.st.pomodoroDuration,
                date |-> getToday(t),
                type |-> "pomodoro" ])
  IN [ w2 EXCEPT !.to = @ \cup
         { [ kind |-> "pomodoro", due |-> t + HoldSeconds * Res ] } ]

breakFinished(w, t) ==
  LET w1 == [ w EXCEPT !.iv = clearInterval(@, w.st.timerInterval) ]
      w2 == pushSession(w1,
              [ id |-> generateId(w1.rnd),
                projectId |-> "break",
                startTime |-> Num(w1.st.startTime),
                endTime |-> t,
                duration |-> w1.st.pomodoroDuration,
                date |-> getToday(t),
                type |-> "break" ])
  IN [ w2 EXCEPT !.to = @ \cup
         { [ kind |-> "break", due |-> t + HoldSeconds * Res ] } ]

\* The callback startTimer and resumeTimer pass to setInterval.
timerTick(w, t) ==
  LET w1 == [ w EXCEPT !.st.elapsedSeconds =
                           (t - Num(w.st.startTime)) \div Res ]
      rest(x) == IF x.st.elapsedSeconds % 2 = 0
                   THEN saveRecoveryState(x, t) ELSE x
  IN IF w1.st.pomodoroMode /\ w1.st.pomodoroDuration > 0
       THEN LET w2 == [ w1 EXCEPT !.st.pomodoroRemaining =
                          w1.st.pomodoroDuration - w1.st.elapsedSeconds ]
            IN IF w2.st.pomodoroRemaining <= 0
                 THEN pomodoroFinished(w2, t)
                 ELSE rest(w2)
       ELSE rest(w1)

\* The callback startBreak passes to setInterval.
breakTick(w, t) ==
  LET e == (t - Num(w.st.startTime)) \div Res
      w1 == [ w EXCEPT !.st.elapsedSeconds = e,
                       !.st.pomodoroRemaining = w.st.pomodoroDuration - e ]
  IN IF w1.st.pomodoroRemaining <= 0 THEN breakFinished(w1, t) ELSE w1

\* The display-hold callback leaving the target in place.
holdReset_KeepTarget(w, kind) ==
  LET st1 == [ w.st EXCEPT !.elapsedSeconds = 0, !.pomodoroRemaining = 0 ]
  IN [ w EXCEPT !.st = IF kind = "break"
                         THEN [ st1 EXCEPT !.pomodoroDuration = 1500 ]
                         ELSE st1 ]

\* The callbacks pomodoroFinished and breakFinished pass to setTimeout.
holdReset(w, kind) ==
  LET st1 == [ w.st EXCEPT !.activeTimer = Null, !.startTime = NullTime,
                           !.elapsedSeconds = 0, !.pomodoroRemaining = 0 ]
  IN [ w EXCEPT !.st = IF kind = "break"
                         THEN [ st1 EXCEPT !.pomodoroDuration = 1500 ]
                         ELSE st1 ]

\* The click handler of a pomodoro button.
pomoBtnClick(w, duration, type, t) ==
  LET w1 == [ w EXCEPT !.st.pomodoroDuration = duration,
                       !.st.pomodoroMode = (duration > 0) ]
  IN IF type = "break" THEN startBreak(w1, duration, t) ELSE w1

\* ------------------------------------------------------------------------
\* Statistics
\* ------------------------------------------------------------------------
Min(a, b) == IF a <= b THEN a ELSE b
Max(a, b) == IF a >= b THEN a ELSE b

\* Math.round(x / y) for y > 0: the nearest integer, halves upwards.
Round(x, y) == (2 * x + y) \div (2 * y)

\* getWeekAgo: the calendar day seven days before t.
getWeekAgo(t) == getToday(t - 7 * 86400 * Res)

RECURSIVE SumDuration(_)
SumDuration(ss) ==
  IF ss = << >> THEN 0 ELSE Head(ss).duration + SumDuration(Tail(ss))

\* Minutes of the session inside [hourStart, hourEnd), at most 60.
getMinutesInHour(session, hourStart, hourEnd) ==
  IF session.endTime <= hourStart \/ session.startTime >= hourEnd THEN 0
  ELSE LET overlapStart == Max(session.startTime, hourStart)
           overlapEnd == Min(session.endTime, hourEnd)
       IN Min(60, Round(overlapEnd - overlapStart, 60 * Res))

RECURSIVE SumMinutes(_, _, _)
SumMinutes(ss, hourStart, hourEnd) ==
  IF ss = << >> THEN 0
  ELSE getMinutesInHour(Head(ss), hourStart, hourEnd) +
       SumMinutes(Tail(ss), hourStart, hourEnd)

\* The hour that holds t, then back i hours (setHours(getHours() - i, 0, 0, 0)).
HourStart(t, i) == (t \div (3600 * Res)) * (3600 * Res) - i * 3600 * Res

getStats(w, t) ==
  LET today == getToday(t)
      weekAgo == getWeekAgo(t)
      todaySessions == SelectSeq(w.st.sessions, LAMBDA x : x.date = today)
      weekSessions == SelectSeq(w.st.sessions, LAMBDA x : x.date >= weekAgo)
      secondsOf(p) ==
        SumDuration(SelectSeq(weekSessions, LAMBDA x : x.projectId = p.id))
      projectData ==
        [ k \in 1..Len(w.st.projects) |->
            LET totalSeconds == secondsOf(w.st.projects[k])
            IN [ name |-> w.st.projects[k].name,
                 value |-> IF totalSeconds >= 3600
                             THEN Round(totalSeconds * 10, 3600) \* tenths
                             ELSE Round(totalSeconds, 60),
                 seconds |-> totalSeconds,
                 unit |-> IF totalSeconds >= 3600 THEN "h" ELSE "m",
                 color |-> w.st.projects[k].color ] ]
  IN [ todayTotal |-> SumDuration(todaySessions),
       weekTotal |-> SumDuration(weekSessions),
       todaySessions |-> todaySessions,
       weekSessions |-> weekSessions,
       \* hourlyData[k] is the window that starts 8 - k hours before the
       \* current hour; its value is in minutes
       hourlyData |->
         [ k \in 1..8 |->
             Min(60, SumMinutes(todaySessions, HourStart(t, 8 - k),
                                HourStart(t, 8 - k) + 3600 * Res)) ],
       \* dailyData[k] is the day 7 - k days before today; its value is in
       \* tenths of an hour
       dailyData |->
         [ k \in 1..7 |->
             Round(SumDuration(SelectSeq(w.st.sessions,
                     LAMBDA x : x.date = getToday(t - (7 - k) * 86400 * Res)))
                   * 10, 3600) ],
       projectData |-> SelectSeq(projectData, LAMBDA p : p.seconds > 0) ]

\* ------------------------------------------------------------------------
\* Project management
\* ------------------------------------------------------------------------
\* addProject, where id is the string its generateId() call, a draw of
\* Math.random, returned.
addProject(w, name, color, id) ==
  saveProjects([ w EXCEPT !.st.projects =
                            Append(@, [ id |-> id, name |-> name,
                                        color |-> color ]),
                          !.rnd = @ + 1 ])

\* deleteProject emptying the session log.
deleteProject_ClearsLog(w, id, t) ==
  LET w1 == IF w.st.activeTimer = id THEN stopTimer(w, FALSE, t) ELSE w
      keepP(p) == p.id # id
      w2 == [ w1 EXCEPT !.st.projects = SelectSeq(@, keepP),
                        !.st.sessions = << >> ]
  IN saveSessions(saveProjects(w2))

\* deleteProject without the cascade to the sessions.
deleteProject_NoCascade(w, id, t) ==
  LET w1 == IF w.st.activeTimer = id THEN stopTimer(w, FALSE, t) ELSE w
      keepP(p) == p.id # id
      w2 == [ w1 EXCEPT !.st.projects = SelectSeq(@, keepP) ]
  IN saveSessions(saveProjects(w2))

deleteProject(w, id, t) ==
  LET w1 == IF w.st.activeTimer = id THEN stopTimer(w, FALSE, t) ELSE w
      keepP(p) == p.id # id
      keepS(s) == s.projectId # id
      w2 == [ w1 EXCEPT !.st.projects = SelectSeq(@, keepP),
                        !.st.sessions = SelectSeq(@, keepS) ]
  IN saveSessions(saveProjects(w2))

\* ------------------------------------------------------------------------
\* Startup
\* ------------------------------------------------------------------------
\* checkRecoveryState without the 24 hour test.
checkRecoveryState_NoStaleTest(w, t) ==
  IF w.ls.pt_recovery = << >> THEN w
  ELSE
    LET data == w.ls.pt_recovery[1]
        w1 == [ w EXCEPT !.st.activeTimer = data.activeTimer,
                         !.st.startTime = data.startTime,
                         !.st.isPaused = data.isPaused,
                         !.st.pausedElapsed = data.pausedElapsed,
                         !.st.pomodoroMode = data.pomodoroMode,
                         !.st.pomodoroDuration = data.pomodoroDuration ]
    IN IF w1.st.isPaused
         THEN [ w1 EXCEPT !.st.elapsedSeconds = w1.st.pausedElapsed ]
         ELSE resumeTimer(w1, t)

checkRecoveryState(w, t) ==
  IF w.ls.pt_recovery = << >> THEN w
  ELSE
    LET data == w.ls.pt_recovery[1] IN
    IF t - data.lastSeen > StaleSeconds * Res
      THEN [ w EXCEPT !.ls.pt_recovery = << >> ]
      ELSE
        LET w1 == [ w EXCEPT !.st.activeTimer = data.activeTimer,
                             !.st.startTime = data.startTime,
                             !.st.isPaused = data.isPaused,
                             !.st.pausedElapsed = data.pausedElapsed,
                             !.st.pomodoroMode = data.pomodoroMode,
                             !.st.pomodoroDuration = data.pomodoroDuration ]
        IN IF w1.st.isPaused
             THEN [ w1 EXCEPT !.st.elapsedSeconds = w1.st.pausedElapsed ]
             ELSE resumeTimer(w1, t)

loadData(w) ==
  [ w EXCEPT !.st.projects = IF w.ls.pt_projects = << >>
                               THEN DEFAULT_PROJECTS
                               ELSE w.ls.pt_projects[1],
             !.st.sessions = IF w.ls.pt_sessions = << >>
                               THEN << >>
                               ELSE w.ls.pt_sessions[1] ]

\* ------------------------------------------------------------------------
\* Sync
\* ------------------------------------------------------------------------
Ids(seq) == { seq[i].id : i \in 1..Len(seq) }

UniqueIds(seq) ==
  \A i, j \in 1..Len(seq) : seq[i].id = seq[j].id => i = j

IndexOfId(seq, id) ==
  IF \E i \in 1..Len(seq) : seq[i].id = id
    THEN CHOOSE i \in 1..Len(seq) :
           seq[i].id = id /\ \A j \in 1..(i - 1) : seq[j].id # id
    ELSE 0

\* GET /sync?date=...: the stored document, or nothing (404).
handleGetSingleDate(store, date) ==
  LET hits == SelectSeq(store, LAMBDA d : d.date = date)
  IN IF hits = << >> THEN << >> ELSE << hits[1] >>

\* POST /sync keeping the document already stored under the date.
handlePostSync_KeepExisting(store, body, t) ==
  IF \E i \in 1..Len(store) : store[i].date = body.date THEN store
  ELSE Append(store, [ date |-> body.date, sessions |-> body.sessions,
                       projects |-> body.projects, syncedAt |-> t ])

\* POST /sync: the document replaces the one stored under its date.
handlePostSync(store, body, t) ==
  SelectSeq(store, LAMBDA d : d.date # body.date) \o
    << [ date |-> body.date, sessions |-> body.sessions,
         projects |-> body.projects, syncedAt |-> t ] >>

\* loadFromAWS yields null (the empty sequence here) on a 404, and also when
\* fetch rejects, when the status is not ok and when response.json() rejects:
\* each of these throws into the catch block, which returns null.
loadFromAWS(store, t, fault) ==
  IF fault # NoFault THEN << >>
  ELSE handleGetSingleDate(store, getToday(t))

\* ListObjectsV2 returns the keys in ascending order: the documents by date.
RECURSIVE listObjects(_)
listObjects(store) ==
  IF store = << >> THEN << >>
  ELSE LET k == CHOOSE i \in 1..Len(store) :
                  \A j \in 1..Len(store) : store[i].date <= store[j].date
       IN << store[k] >> \o
          listObjects(SelectSeq(store, LAMBDA d : d.date # store[k].date))

\* projects.set(p.id, p) on a Map kept as the list of its values: a known key
\* keeps its place and takes the new value, a new key goes to the end.
mapSet(values, p) ==
  IF IndexOfId(values, p.id) = 0 THEN Append(values, p)
  ELSE [ values EXCEPT ![IndexOfId(values, p.id)] = p ]

RECURSIVE mapSetAll(_, _)
mapSetAll(values, ps) ==
  IF ps = << >> THEN values
  ELSE mapSetAll(mapSet(values, Head(ps)), Tail(ps))

\* The for loop of handleGetDateRange over the files; failing holds the dates
\* of the files whose GetObject or JSON.parse throws.
RECURSIVE loadFiles(_, _, _)
loadFiles(files, failing, acc) ==
  IF files = << >> THEN acc
  ELSE
    LET data == Head(files)
        next == IF data.date \in failing THEN acc
                ELSE [ sessions |-> acc.sessions \o data.sessions,
                       projects |-> mapSetAll(acc.projects, data.projects) ]
    IN loadFiles(Tail(files), failing, next)

\* GET /sync?from=...&to=...: the body of the 200 response.
handleGetDateRange(store, from, to, failing) ==
  LET files == SelectSeq(listObjects(store),
                         LAMBDA d : d.date >= from /\ d.date <= to)
      acc == loadFiles(files, failing,
                       [ sessions |-> << >>, projects |-> << >> ])
  IN [ from |-> from, to |-> to, sessions |-> acc.sessions,
       projects |-> acc.projects, filesLoaded |-> Len(files) ]

\* A request to the remote adapter: the method, the query parameters date,
\* from and to, and the fields of the JSON body; NoDate is a parameter or a
\* date field the request does not carry (undefined).
NoDate == -1

\* handleGetSync: the response to GET /sync.
handleGetSync(store, req) ==
  IF req.from # NoDate /\ req.to # NoDate
    THEN [ statusCode |-> 200,
           body |-> << handleGetDateRange(store, req.from, req.to, {}) >> ]
  ELSE IF req.date = NoDate
    THEN [ statusCode |-> 400, body |-> << >> ]
  ELSE IF handleGetSingleDate(store, req.date) = << >>
    THEN [ statusCode |-> 404, body |-> << >> ]
  ELSE [ statusCode |-> 200, body |-> handleGetSingleDate(store, req.date) ]

\* exports.handler: the store after the request and the response; when
\* s3Fails, the calls to the object store throw (not NoSuchKey) and the global
\* error handler answers 500.  A body without date is stored under the key
\* daily-logs/undefined.json, the document of the date NoDate here.
handler(store, req, s3Fails, t) ==
  IF req.method = "POST"
    THEN IF s3Fails
           THEN [ store |-> store,
                  response |-> [ statusCode |-> 500, body |-> << >> ] ]
           ELSE [ store |-> handlePostSync(store, req, t),
                  response |-> [ statusCode |-> 200,
                                 body |-> << [ success |-> TRUE,
                                               date |-> req.date ] >> ] ]
    ELSE [ store |-> store,
           response |->
             IF s3Fails /\ handleGetSync(store, req).statusCode # 400
               THEN [ statusCode |-> 500, body |-> << >> ]
               ELSE handleGetSync(store, req) ]

\* loadHistoryFromAWS yields the body, or null (the empty sequence) when fetch
\* rejects, the status is not ok or response.json() rejects.
loadHistoryFromAWS(store, days, failing, fault, t) ==
  IF fault # NoFault THEN << >>
  ELSE << handleGetDateRange(store, getToday(t - days * 86400 * Res),
                             getToday(t), failing) >>

\* syncToAWS sending the whole session log.
syncToAWS_WholeLog(w, store, fault, t) ==
  LET payload == [ date |-> getToday(t),
                   projects |-> w.st.projects,
                   sessions |-> w.st.sessions ]
  IN [ store |-> IF fault \in { NoFault, "badJson" }
                   THEN handlePostSync(store, payload, t) ELSE store,
       shown |-> IF fault = NoFault THEN "Synced!" ELSE "Error!" ]

\* syncToAWS: the store after the call and the text the sync button shows.
\* A network fault loses the request, a 500 is a PutObject that failed, and
\* with a body that is not JSON the document was stored but the reply is lost.
syncToAWS(w, store, fault, t) ==
  LET payload == [ date |-> getToday(t),
                   projects |-> w.st.projects,
                   sessions |-> SelectSeq(w.st.sessions,
                                  LAMBDA x : x.date = getToday(t)) ]
  IN [ store |-> IF fault \in { NoFault, "badJson" }
                   THEN handlePostSync(store, payload, t) ELSE store,
       shown |-> IF fault = NoFault THEN "Synced!" ELSE "Error!" ]

\* The forEach over remoteData.projects with the local entry kept on conflict.
RECURSIVE mergeProjects_LocalWins(_, _, _)
mergeProjects_LocalWins(local, remote, projectsChanged) ==
  IF remote = << >> THEN [ projects |-> local, changed |-> projectsChanged ]
  ELSE
    IF IndexOfId(local, Head(remote).id) = 0
      THEN mergeProjects_LocalWins(Append(local, Head(remote)), Tail(remote),
                                   TRUE)
      ELSE mergeProjects_LocalWins(local, Tail(remote), projectsChanged)

\* The forEach over remoteData.projects: the list and projectsChanged.
RECURSIVE mergeProjects(_, _, _)
mergeProjects(local, remote, projectsChanged) ==
  IF remote = << >> THEN [ projects |-> local, changed |-> projectsChanged ]
  ELSE
    LET remoteProj == Head(remote)
        localIndex == IndexOfId(local, remoteProj.id)
    IN IF localIndex = 0
         THEN mergeProjects(Append(local, remoteProj), Tail(remote), TRUE)
         ELSE IF local[localIndex].name # remoteProj.name \/
                 local[localIndex].color # remoteProj.color
                THEN mergeProjects([ local EXCEPT ![localIndex] = remoteProj ],
                                   Tail(remote), TRUE)
                ELSE mergeProjects(local, Tail(remote), projectsChanged)

\* The forEach over remoteData.sessions without the test for a local session
\* of the same id.
mergeSessions_NoExistsTest(local, remote) == local \o remote

\* The forEach over remoteData.sessions with the remote session replacing a
\* local one of the same id.
RECURSIVE mergeSessions_Overwrite(_, _)
mergeSessions_Overwrite(local, remote) ==
  IF remote = << >> THEN local
  ELSE
    LET remoteSess == Head(remote)
        li == IndexOfId(local, remoteSess.id)
        next == IF li = 0
                  THEN Append(local, remoteSess)
                  ELSE [ local EXCEPT ![li] = remoteSess ]
    IN mergeSessions_Overwrite(next, Tail(remote))

\* The forEach over remoteData.sessions.
RECURSIVE mergeSessions(_, _)
mergeSessions(local, remote) ==
  IF remote = << >> THEN local
  ELSE
    LET remoteSess == Head(remote)
        next == IF IndexOfId(local, remoteSess.id) = 0
                  THEN Append(local, remoteSess)
                  ELSE local
    IN mergeSessions(next, Tail(remote))

\* mergeFromAWS once loadFromAWS has returned remoteData.
mergeFromAWS(w, remoteData) ==
  IF remoteData = << >> THEN w
  ELSE
    LET ps == mergeProjects(w.st.projects, remoteData[1].projects, FALSE)
        w0 == [ w EXCEPT !.st.projects = ps.projects ]
        w1 == IF ps.changed THEN saveProjects(w0) ELSE w0
        ss == mergeSessions(w1.st.sessions, remoteData[1].sessions)
    IN IF Len(ss) > Len(w1.st.sessions)
         THEN saveSessions([ w1 EXCEPT !.st.sessions = ss ])
         ELSE w1

\* init starting from empty local data when the fetch of today's document
\* failed.
init_ForgetOnFault(ls, store, r, t, fault) ==
  LET w0 == [ st |-> initialState, ls |-> ls, iv |-> {}, to |-> {},
              rnd |-> r ]
  IN IF fault # NoFault
       THEN checkRecoveryState(
              saveSessions([ w0 EXCEPT !.st.projects = DEFAULT_PROJECTS ]), t)
       ELSE checkRecoveryState(
              mergeFromAWS(loadData(w0), loadFromAWS(store, t, fault)), t)

init(ls, store, r, t, fault) ==
  LET w0 == [ st |-> initialState, ls |-> ls, iv |-> {}, to |-> {},
              rnd |-> r ]
  IN checkRecoveryState(
       mergeFromAWS(loadData(w0), loadFromAWS(store, t, fault)), t)

\* What checkRecoveryState finds in the recovery slot at time t.
recoveryFound(ls, t) ==
  IF ls.pt_recovery = << >> THEN "absent"
  ELSE IF t - ls.pt_recovery[1].lastSeen > StaleSeconds * Res THEN "stale"
  ELSE "restored"

\* ------------------------------------------------------------------------
\* The state machine
\* ------------------------------------------------------------------------
Bounded(w) ==
  /\ Len(w.st.sessions) <= MaxSessions
  /\ Cardinality(w.iv) <= MaxIntervals
  /\ w.rnd <= MaxIds

Commit(w) ==
  /\ Bounded(w)
  /\ state' = w.st
  /\ localStorage' = w.ls
  /\ intervals' = w.iv
  /\ timeouts' = w.to
  /\ rnd' = w.rnd

FirstBoot ==
  init([ pt_recovery |-> << >>, pt_sessions |-> << >>,
         pt_projects |-> << >> ], << >>, 0, Epoch0, NoFault)

Init ==
  /\ now = Epoch0
  /\ uptime = 0
  /\ bootLog = << >>
  /\ s3 = << >>
  /\ state = FirstBoot.st
  /\ localStorage = FirstBoot.ls
  /\ intervals = FirstBoot.iv
  /\ timeouts = FirstBoot.to
  /\ rnd = FirstBoot.rnd
  /\ ranUnits = -1
  /\ reply = NoReply
  /\ stats = << >>
  /\ discarded = FALSE

StartTimer(p) ==
  /\ Commit(startTimer(World, p, now))
  /\ ranUnits' = IF state.isPaused /\ state.activeTimer = p
                   THEN ranUnits ELSE 0
  /\ discarded' = /\ state.activeTimer \notin { Null, p }
                   /\ state.elapsedSeconds >= MinDuration
  /\ UNCHANGED << now, uptime, bootLog, s3, reply, stats >>

PauseTimer ==
  /\ Commit(pauseTimer(World))
  /\ UNCHANGED ranUnits
  /\ UNCHANGED << now, uptime, bootLog, s3, reply, stats >>
  /\ discarded' = FALSE

ResumeTimer ==
  /\ Commit(resumeTimer(World, now))
  /\ UNCHANGED ranUnits
  /\ UNCHANGED << now, uptime, bootLog, s3, reply, stats >>
  /\ discarded' = FALSE

StopTimer ==
  /\ Commit(stopTimer(World, TRUE, now))
  /\ ranUnits' = IF state.activeTimer # Null THEN -1 ELSE ranUnits
  /\ UNCHANGED << now, uptime, bootLog, s3, reply, stats >>
  /\ discarded' = FALSE

PomoBtn(d, type) ==
  /\ Commit(pomoBtnClick(World, d, type, now))
  /\ ranUnits' = IF type = "break" THEN 0 ELSE ranUnits
  /\ UNCHANGED << now, uptime, bootLog, s3, reply, stats >>
  /\ discarded' = FALSE

\* The confirm button of the add-project form, with a name that is not blank.
AddProject(name, color, id) ==
  /\ Commit(addProject(World, name, color, id))
  /\ UNCHANGED << now, uptime, bootLog, s3, reply, stats, ranUnits >>
  /\ discarded' = FALSE

DeleteProject(p) ==
  /\ Commit(deleteProject(World, p, now))
  /\ ranUnits' = IF state.activeTimer = p THEN -1 ELSE ranUnits
  /\ UNCHANGED << now, uptime, bootLog, s3, reply, stats >>
  /\ discarded' = FALSE

\* A setInterval callback fires and the interval is rescheduled unless the
\* callback cleared it.
Tick(i) ==
  /\ i.due = now
  /\ LET w == IF i.kind = "break" THEN breakTick(World, now)
                                  ELSE timerTick(World, now)
     IN Commit([ w EXCEPT !.iv = IF i \in w.iv
                                   THEN (w.iv \ {i}) \cup
                                        { [ i EXCEPT !.due = @ + Res ] }
                                   ELSE w.iv ])
  /\ ranUnits' = IF state'.sessions # state.sessions THEN -1 ELSE ranUnits
  /\ UNCHANGED << now, uptime, bootLog, s3, reply, stats >>
  /\ discarded' = FALSE

HoldTimeout(h) ==
  /\ h.due = now
  /\ Commit([ holdReset(World, h.kind) EXCEPT !.to = @ \ {h} ])
  /\ ranUnits' = -1
  /\ UNCHANGED << now, uptime, bootLog, s3, reply, stats >>
  /\ discarded' = FALSE

AdvanceTime ==
  /\ uptime < MaxUptime
  /\ \A i \in intervals : i.due > now
  /\ \A h \in timeouts : h.due > now
  /\ now' = now + 1
  /\ uptime' = uptime + 1
  /\ ranUnits' = IF ranUnits >= 0 /\ ~state.isPaused
                   THEN ranUnits + 1 ELSE ranUnits
  /\ UNCHANGED << state, localStorage, intervals, timeouts, bootLog, s3, rnd,
                  reply, stats >>
  /\ discarded' = FALSE

\* The clock goes on while a display-hold callback is pending: the callback
\* fires HoldSeconds after the completion, however late in the sitting the
\* completion came.
HoldWait ==
  /\ timeouts # {}
  /\ uptime = MaxUptime
  /\ \A i \in intervals : i.due > now
  /\ \A h \in timeouts : h.due > now
  /\ now' = now + 1
  /\ ranUnits' = IF ranUnits >= 0 /\ ~state.isPaused
                   THEN ranUnits + 1 ELSE ranUnits
  /\ UNCHANGED << state, localStorage, intervals, timeouts, uptime, bootLog,
                  s3, rnd, reply, stats >>
  /\ discarded' = FALSE

\* The process ends (crash or quit) and is started again gap units later; the
\* fetch of today's document at startup meets the fault.
Restart(gap, fault) ==
  /\ Len(bootLog) < MaxBoots
  /\ bootLog' = Append(bootLog, recoveryFound(localStorage, now + gap))
  /\ now' = now + gap
  /\ Commit(init(localStorage, s3, rnd, now + gap, fault))
  /\ ranUnits' = -1
  /\ reply' = [ op |-> "loadFromAWS", fault |-> fault,
                value |-> loadFromAWS(s3, now + gap, fault) ]
  /\ UNCHANGED << uptime, s3, stats >>
  /\ discarded' = FALSE

UserStep ==
  \/ \E p \in ProjectIds(state.projects) \cap Clickable : StartTimer(p)
  \/ PauseTimer
  \/ ResumeTimer
  \/ StopTimer
  \/ \E d \in WorkDurations : PomoBtn(d, "work")
  \/ \E d \in BreakDurations : PomoBtn(d, "break")

ClockStep ==
  \/ \E i \in intervals : Tick(i)
  \/ \E h \in timeouts : HoldTimeout(h)
  \/ AdvanceTime

\* Another device uploads the first day document, for today.
RemoteWrite(ss, ps) ==
  /\ s3 = << >>
  /\ s3' = handlePostSync(s3, [ date |-> getToday(now), sessions |-> ss,
                                projects |-> ps ], now)
  /\ UNCHANGED << state, localStorage, intervals, timeouts, now, uptime,
                  bootLog, rnd, ranUnits, reply, stats >>
  /\ discarded' = FALSE

\* The sync button, Ctrl+S or the auto-sync interval: one upload.
SyncToAWS(fault) ==
  /\ s3' = syncToAWS(World, s3, fault, now).store
  /\ reply' = [ op |-> "syncToAWS", fault |-> fault,
                value |-> << syncToAWS(World, s3, fault, now).shown >> ]
  /\ UNCHANGED << state, localStorage, intervals, timeouts, now, uptime,
                  bootLog, rnd, ranUnits, stats >>
  /\ discarded' = FALSE

\* The AI analysis asks for the documents of the last 30 days.
LoadHistory(failing, fault) ==
  /\ reply' = [ op |-> "loadHistoryFromAWS", fault |-> fault,
                value |-> loadHistoryFromAWS(s3, HistoryDays, failing,
                                             fault, now) ]
  /\ UNCHANGED << state, localStorage, intervals, timeouts, now, uptime,
                  bootLog, s3, rnd, ranUnits, stats >>
  /\ discarded' = FALSE

\* One HTTP request reaches the remote adapter.
Request(req, s3Fails) ==
  /\ s3' = handler(s3, req, s3Fails, now).store
  /\ reply' = [ op |-> "request", fault |-> NoFault,
                value |-> << handler(s3, req, s3Fails, now).response >>,
                request |-> req, s3Fails |-> s3Fails ]
  /\ UNCHANGED << state, localStorage, intervals, timeouts, now, uptime,
                  bootLog, rnd, ranUnits, stats >>
  /\ discarded' = FALSE

\* updateStats and the charts read getStats().
GetStats ==
  /\ stats' = << getStats(World, now) >>
  /\ UNCHANGED << state, localStorage, intervals, timeouts, now, uptime,
                  bootLog, s3, rnd, ranUnits, reply >>
  /\ discarded' = FALSE

\* The timer state machine in one run of the process.
Next ==
  \/ UserStep
  \/ ClockStep

Spec == Init /\ [][Next]_vars

\* The timer state machine across restarts of the process.
NextRecovery ==
  \/ \E p \in ProjectIds(state.projects) \cap Clickable : StartTimer(p)
  \/ PauseTimer
  \/ ResumeTimer
  \/ StopTimer
  \/ \E i \in intervals : Tick(i)
  \/ AdvanceTime
  \/ \E gap \in RestartGaps : Restart(gap, NoFault)

SpecRecovery == Init /\ [][NextRecovery]_vars

\* The timer state machine with deletion of projects.
NextProjects ==
  \/ \E p \in ProjectIds(state.projects) \cap Clickable : StartTimer(p)
  \/ StopTimer
  \/ \E d \in WorkDurations : PomoBtn(d, "work")
  \/ \E d \in BreakDurations : PomoBtn(d, "break")
  \/ ClockStep
  \/ \E p \in ProjectIds(state.projects) \cap Clickable : DeleteProject(p)

SpecProjects == Init /\ [][NextProjects]_vars

\* The local data a previous run of the process left behind, and the day
\* documents another device may hold.
LocalSession ==
  [ id |-> "g1", projectId |-> "proj1", startTime |-> Epoch0 - 10 * Res,
    endTime |-> Epoch0 - 6 * Res, duration |-> 2, date |-> getToday(Epoch0),
    type |-> "work" ]

LocalLogs == { << >>, << << LocalSession >> >> }

LocalProjectLists == { << >>, << SubSeq(DEFAULT_PROJECTS, 1, 2) >> }

RemoteProjects ==
  { [id |-> "proj1", name |-> "Work Project", color |-> "#00ff88"],
    [id |-> "proj1", name |-> "Renamed",      color |-> "#00ff88"],
    [id |-> "proj1", name |-> "Work Project", color |-> "#111111"],
    [id |-> "rp1",   name |-> "Remote",       color |-> "#222222"] }

RemoteSessions ==
  { [ LocalSession EXCEPT !.duration = 3, !.endTime = Epoch0 - 4 * Res,
                          !.projectId = "rp1" ],
    [ LocalSession EXCEPT !.id = "r1", !.type = "pomodoro" ],
    [ LocalSession EXCEPT !.id = "r1", !.projectId = "break",
                          !.type = "break" ] }

MaxRemoteLen == 2

SeqsUpTo(S, n) == UNION { [ 1..k -> S ] : k \in 0..n }

RemoteSessionLists == SeqsUpTo(RemoteSessions, MaxRemoteLen)
RemoteProjectLists == SeqsUpTo(RemoteProjects, MaxRemoteLen)

InitMerge ==
  /\ now = Epoch0
  /\ uptime = 0
  /\ bootLog = << >>
  /\ s3 = << >>
  /\ ranUnits = -1
  /\ reply = NoReply
  /\ stats = << >>
  /\ discarded = FALSE
  /\ intervals = {}
  /\ timeouts = {}
  /\ \E log \in LocalLogs, pl \in LocalProjectLists :
       LET w == init([ pt_recovery |-> << >>, pt_sessions |-> log,
                       pt_projects |-> pl ], << >>, Len(log), Epoch0,
                     NoFault)
       IN /\ state = w.st
          /\ localStorage = w.ls
          /\ rnd = w.rnd

\* Startup against a remote store other devices write to; the process is
\* started again within the day.
NextMerge ==
  \/ \E ss \in RemoteSessionLists, ps \in RemoteProjectLists :
       RemoteWrite(ss, ps)
  \/ \E gap \in { g \in RestartGaps : g < StaleSeconds * Res } :
       Restart(gap, NoFault)

SpecMerge == InitMerge /\ [][NextMerge]_vars

\* The day documents earlier uploads left in the remote store: one document
\* for each of the first k days of StoredDays (days before today), for k up
\* to MaxStoredDays.
MaxStoredDays == 3

StoredDays == << 1, 31, 2, 3, 4 >>

PastSession(n) ==
  [ id |-> "h" \o ToString(n), projectId |-> "proj1",
    startTime |-> Epoch0 - n * 86400 * Res - 10 * Res,
    endTime |-> Epoch0 - n * 86400 * Res - 6 * Res,
    duration |-> 2, date |-> getToday(Epoch0) - n, type |-> "work" ]

RECURSIVE PastStore(_)
PastStore(k) ==
  IF k = 0 THEN << >>
  ELSE handlePostSync(PastStore(k - 1),
         [ date |-> getToday(Epoch0) - StoredDays[k],
           sessions |-> << PastSession(StoredDays[k]) >>,
           projects |-> SubSeq(DEFAULT_PROJECTS, 1, 1) ],
         Epoch0 - StoredDays[k] * 86400 * Res)

StoredDates(store) == { store[i].date : i \in 1..Len(store) }

InitSync ==
  /\ now = Epoch0
  /\ uptime = 0
  /\ bootLog = << >>
  /\ ranUnits = -1
  /\ reply = NoReply
  /\ stats = << >>
  /\ discarded = FALSE
  /\ intervals = {}
  /\ timeouts = {}
  /\ \E k \in 0..MaxStoredDays, log \in LocalLogs :
       LET w == init([ pt_recovery |-> << >>, pt_sessions |-> log,
                       pt_projects |-> << >> ], PastStore(k), Len(log),
                     Epoch0, NoFault)
       IN /\ s3 = PastStore(k)
          /\ state = w.st
          /\ localStorage = w.ls
          /\ rnd = w.rnd

\* Uploads, history requests and restarts over a network and a store that can
\* fail, with a timer the user starts, pauses and stops meanwhile.
NextSync ==
  \/ StartTimer("proj1")
  \/ PauseTimer
  \/ StopTimer
  \/ \E fault \in Faults : SyncToAWS(fault)
  \/ \E fault \in Faults, failing \in SUBSET StoredDates(s3) :
       /\ fault # NoFault => failing = {}
       /\ LoadHistory(failing, fault)
  \/ \E fault \in Faults : Restart(3600 * Res, fault)

SpecSync == InitSync /\ [][NextSync]_vars

\* The strings a generateId() call may return, the names typed into the
\* add-project form, and the project lists of another device's documents.
GenOutcomes == { GenIds[i] : i \in 1..2 }

ProjectNames == { "Garden" }

IdRemoteProjects ==
  { [id |-> "proj1", name |-> "Renamed", color |-> "#00ff88"],
    [id |-> "g1",    name |-> "Remote",  color |-> "#222222"],
    [id |-> "break", name |-> "Break",   color |-> "#333333"] }

\* The project list under the add and delete buttons and the startup merge.
NextIds ==
  \/ \E name \in ProjectNames, id \in GenOutcomes :
       AddProject(name, "#00d4ff", id)
  \/ \E p \in ProjectIds(state.projects) : DeleteProject(p)
  \/ \E ps \in SeqsUpTo(IdRemoteProjects, MaxRemoteLen) :
       RemoteWrite(<< >>, ps)
  \/ Restart(3600 * Res, NoFault)

SpecIds == Init /\ [][NextIds]_vars

\* Session logs for the statistics: the session starts startsAt and ends
\* endsAt seconds after noon of the day that is daysAgo days before (or,
\* negative, after) the day the model starts on.
StatSession(id, daysAgo, startsAt, endsAt) ==
  [ id |-> id, projectId |-> "proj1",
    startTime |-> Epoch0 - daysAgo * 86400 * Res + startsAt * Res,
    endTime |-> Epoch0 - daysAgo * 86400 * Res + endsAt * Res,
    duration |-> endsAt - startsAt,
    date |-> getToday(Epoch0) - daysAgo,
    type |-> "work" ]

StatSessions ==
  { StatSession("s1", 0, -20, 20),        \* 11:59:40 to 12:00:20
    StatSession("s2", 0, 600, 690),       \* 12:10:00 to 12:11:30
    StatSession("s3", 0, 0, 1200),        \* 12:00:00 to 12:20:00
    StatSession("s4", 0, -5400, 900),     \* 10:30:00 to 12:15:00
    StatSession("s5", 6, 0, 1200),
    StatSession("s6", 7, 0, 1200),
    StatSession("s7", -1, 0, 1200) }

StatTimes == { Epoch0 + 1800 * Res, Epoch0 + 3 * 3600 * Res }

InitStats ==
  /\ uptime = 0
  /\ bootLog = << >>
  /\ s3 = << >>
  /\ ranUnits = -1
  /\ reply = NoReply
  /\ stats = << >>
  /\ discarded = FALSE
  /\ intervals = {}
  /\ timeouts = {}
  /\ now \in StatTimes
  /\ \E log \in SeqsUpTo(StatSessions, MaxSessions) :
       LET w == init([ pt_recovery |-> << >>, pt_sessions |-> << log >>,
                       pt_projects |-> << >> ], << >>, Len(log), now,
                     NoFault)
       IN /\ state = w.st
          /\ localStorage = w.ls
          /\ rnd = w.rnd

\* The statistics of a session log.
NextStats == GetStats

SpecStats == InitStats /\ [][NextStats]_vars

\* The session lists of the documents another device wrote: another version
\* of the local session, alone or after a session the local log lacks.
LogRemoteLists ==
  { q \in RemoteSessionLists :
      /\ q # << >>
      /\ q[Len(q)].id = LocalSession.id
      /\ UniqueIds(q) }

\* Everything that reads or writes the session log: the timer, the delete
\* button, the upload, the statistics and the startup merge of a document
\* another device wrote; the user turns to the sync and the statistics at the
\* end of the sitting, while no timer is active.
NextLog ==
  \/ StartTimer("proj1")
  \/ StopTimer
  \/ \E i \in intervals : Tick(i)
  \/ AdvanceTime
  \/ \E p \in ProjectIds(state.projects) \cap Clickable : DeleteProject(p)
  \/ /\ state.activeTimer = Null
     /\ uptime = MaxUptime
     /\ \/ SyncToAWS(NoFault)
        \/ GetStats
        \/ \E ss \in LogRemoteLists : RemoteWrite(ss, << >>)
        \/ Restart(3600 * Res, NoFault)

SpecLog == InitMerge /\ [][NextLog]_vars

\* Uploads of a log that holds sessions of several days, and startups that
\* merge what was uploaded.
NextUpload ==
  \/ \E fault \in Faults : SyncToAWS(fault)
  \/ Restart(3600 * Res, NoFault)

SpecUpload == InitStats /\ [][NextUpload]_vars

\* The requests clients send to the remote adapter: with and without the
\* date parameters, for today and for yesterday.
ReqDates == { getToday(Epoch0), getToday(Epoch0) - 1, NoDate }

GetRequests ==
  { [ method |-> "GET", date |-> d, from |-> f, to |-> t,
      sessions |-> << >>, projects |-> << >> ] :
      d \in ReqDates, f \in { NoDate, getToday(Epoch0) - HistoryDays },
      t \in { NoDate, getToday(Epoch0) } }

PostRequests ==
  { [ method |-> "POST", date |-> d, from |-> NoDate, to |-> NoDate,
      sessions |-> ss, projects |-> ps ] :
      d \in ReqDates, ss \in { << >>, << LocalSession >> },
      ps \in { SubSeq(DEFAULT_PROJECTS, 1, 2) } }

\* The remote adapter under the requests of any client.
NextServer ==
  \E req \in GetRequests \cup PostRequests, s3Fails \in BOOLEAN :
    Request(req, s3Fails)

SpecServer == InitSync /\ [][NextServer]_vars

\* The user clicks on whole seconds of the sitting.
AtSecond == uptime < MaxUptime /\ (now - Epoch0) % Res = 0

\* One project's timer and the one second pomodoro and break, with the
\* browser firing every callback that is due and the clock going on.
NextHold ==
  \/ /\ AtSecond
     /\ \/ StartTimer("proj1")
        \/ PauseTimer
        \/ ResumeTimer
        \/ StopTimer
        \/ PomoBtn(1, "work")
        \/ PomoBtn(1, "break")
  \/ ClockStep
  \/ HoldWait

SpecHold == Init /\ [][NextHold]_vars /\ WF_vars(ClockStep \/ HoldWait)

\* The seconds after the start of the sitting the user is watched for when a
\* completion is followed closely: a run of one second, the display-hold, and
\* one second more.
WindowSeconds == 1 + HoldSeconds + 1

\* The clock goes on to the end of the watched window.
WindowTime ==
  /\ now - Epoch0 < WindowSeconds * Res
  /\ \A i \in intervals : i.due > now
  /\ \A h \in timeouts : h.due > now
  /\ now' = now + 1
  /\ ranUnits' = IF ranUnits >= 0 /\ ~state.isPaused
                   THEN ranUnits + 1 ELSE ranUnits
  /\ UNCHANGED << state, localStorage, intervals, timeouts, uptime, bootLog,
                  s3, rnd, reply, stats >>
  /\ discarded' = FALSE

\* One project's timer and the one second break, clicked on whole seconds,
\* through the display-hold of a completion and after it.
NextWindow ==
  \/ /\ (now - Epoch0) % Res = 0
     /\ \/ StartTimer("proj1")
        \/ PauseTimer
        \/ StopTimer
        \/ PomoBtn(1, "break")
  \/ \E i \in intervals : Tick(i)
  \/ \E h \in timeouts : HoldTimeout(h)
  \/ WindowTime

SpecWindow == Init /\ [][NextWindow]_vars

\* The auto-sync: CONFIG.AUTO_SYNC_INTERVAL minutes between two firings of
\* the interval setupAutoSync installs at startup.
AutoSyncMinutes == 5

AutoSyncPeriod == AutoSyncMinutes * 60 * Res

\* The midnight (UTC) that ends the day the model starts on, and the times the
\* application is opened at: two periods and one period before it.
Midnight == (getToday(Epoch0) + 1) * 86400 * Res

BackupStarts == { Midnight - 2 * AutoSyncPeriod, Midnight - AutoSyncPeriod }

\* The firing of the auto-sync interval that follows t: the firings are whole
\* periods after the startup.
NextAutoSync(t) ==
  LET first == Midnight - 2 * AutoSyncPeriod
  IN first + ((t - first) \div AutoSyncPeriod + 1) * AutoSyncPeriod

InitBackup ==
  /\ now \in BackupStarts
  /\ uptime = 0
  /\ bootLog = << >>
  /\ s3 = << >>
  /\ ranUnits = -1
  /\ reply = NoReply
  /\ stats = << >>
  /\ discarded = FALSE
  /\ LET w == init([ pt_recovery |-> << >>, pt_sessions |-> << >>,
                     pt_projects |-> << >> ], << >>, 0, now, NoFault)
     IN /\ state = w.st
        /\ localStorage = w.ls
        /\ intervals = w.iv
        /\ timeouts = w.to
        /\ rnd = w.rnd

\* The clock reaches the next firing of the auto-sync interval, no tick being
\* pending before it, and its callback uploads when the log is not empty;
\* the uploads succeed.  The firings up to one period after midnight are
\* followed.
AutoSync ==
  /\ intervals = {}
  /\ timeouts = {}
  /\ NextAutoSync(now) <= Midnight + AutoSyncPeriod
  /\ now' = NextAutoSync(now)
  /\ IF state.sessions # << >>
       THEN /\ s3' = syncToAWS(World, s3, NoFault, NextAutoSync(now)).store
            /\ reply' = [ op |-> "syncToAWS", fault |-> NoFault,
                          value |-> << syncToAWS(World, s3, NoFault,
                                                 NextAutoSync(now)).shown >> ]
       ELSE UNCHANGED << s3, reply >>
  /\ UNCHANGED << state, localStorage, intervals, timeouts, uptime, bootLog,
                  rnd, ranUnits, stats >>
  /\ discarded' = FALSE

\* A project's timer started, paused and stopped in the minutes before
\* midnight, with the auto-sync firing every period.
NextBackup ==
  \/ StartTimer("proj1")
  \/ PauseTimer
  \/ StopTimer
  \/ \E i \in intervals : Tick(i)
  \/ AdvanceTime
  \/ AutoSync

SpecBackup == InitBackup /\ [][NextBackup]_vars /\ WF_vars(AutoSync)

\* generateId() is Math.random().toString(36).substr(2, 9): the generator
\* may be at any point of its sequence, so the next call may return a string
\* an earlier call returned.  The points the generator is put at:
RandomPoints == 0..1

\* The random source moves to point n: the next generateId() call returns
\* generateId(n).
MathRandom(n) ==
  /\ rnd' = n
  /\ UNCHANGED << state, localStorage, intervals, timeouts, now, uptime,
                  bootLog, s3, ranUnits, reply, stats >>
  /\ discarded' = FALSE

\* The writers of session ids: stops and completions of a project's timer
\* and of the one second break, with any outcome of the random source.
NextSessionIds ==
  \/ StartTimer("proj1")
  \/ StopTimer
  \/ PomoBtn(1, "break")
  \/ ClockStep
  \/ \E n \in RandomPoints : MathRandom(n)

SpecSessionIds == Init /\ [][NextSessionIds]_vars

\* ------------------------------------------------------------------------
\* Properties
\* ------------------------------------------------------------------------
Idle(st) ==
  /\ st.activeTimer = Null
  /\ st.startTime = NullTime
  /\ st.elapsedSeconds = 0
  /\ ~st.isPaused

IsPrefix(s, t) == Len(s) <= Len(t) /\ SubSeq(t, 1, Len(s)) = s

HandleLive == \E i \in intervals : i.id = state.timerInterval

\* C1: stopTimer(save = true) on an active timer appends no session when
\* elapsedSeconds < the minimum session duration and exactly one session (the
\* run's, with duration elapsedSeconds) when elapsedSeconds >= the minimum;
\* either way the timer ends Idle with its tick handler cancelled.
C1_MinDurationGate ==
  [][ (StopTimer /\ state.activeTimer # Null) =>
        /\ IsPrefix(state.sessions, state'.sessions)
        /\ Len(state'.sessions) = Len(state.sessions) +
             (IF state.elapsedSeconds >= MinDuration THEN 1 ELSE 0)
        /\ (state.elapsedSeconds >= MinDuration =>
              /\ state'.sessions[Len(state'.sessions)].duration =
                   state.elapsedSeconds
              /\ state'.sessions[Len(state'.sessions)].projectId =
                   state.activeTimer)
        /\ Idle(state')
        /\ ~HandleLive' ]_vars

\* A manual stop has recorded a work session and left the timer Idle.
C1_Witness ==
  /\ Idle(state)
  /\ \E i \in 1..Len(state.sessions) :
       /\ state.sessions[i].type = "work"
       /\ state.sessions[i].duration >= MinDuration

\* C2: whenever a tick of a pomodoro or break countdown finds remaining <= 0,
\* one session is appended to the log and the log is persisted, also when the
\* configured duration is below the minimum session duration.
C2_CompletionUnconditional ==
  [][ \A i \in intervals :
        ( /\ Tick(i)
          /\ i.kind = "break" \/
               (state.pomodoroMode /\ state.pomodoroDuration > 0)
          /\ state.pomodoroDuration -
               ((now - Num(state.startTime)) \div Res) <= 0 )
        => /\ Len(state'.sessions) = Len(state.sessions) + 1
           /\ IsPrefix(state.sessions, state'.sessions)
           /\ localStorage'.pt_sessions = << state'.sessions >> ]_vars

\* A completion has recorded and persisted a session shorter than the minimum.
C2_Witness ==
  /\ localStorage.pt_sessions = << state.sessions >>
  /\ \E i \in 1..Len(state.sessions) :
       /\ state.sessions[i].type \in {"pomodoro", "break"}
       /\ state.sessions[i].duration < MinDuration
       /\ state.sessions[i].duration = 1

NoCallbackDue ==
  /\ \A i \in intervals : i.due > now
  /\ \A h \in timeouts : h.due > now

\* C3: through any number of pause/resume cycles elapsedSeconds equals the
\* time the run has spent running, within one tick: paused time is not
\* counted and run time is not lost.  (Read when every due tick has fired.)
C3_ElapsedContinuity ==
  (ranUnits >= 0 /\ NoCallbackDue) =>
    /\ state.elapsedSeconds * Res - ranUnits <= Res
    /\ ranUnits - state.elapsedSeconds * Res <= Res

\* C4: a restart that finds a snapshot of a running (not paused) timer, last
\* seen at most 24 hours ago, restores its target and startedAt and schedules
\* a tick handler.
C4_RecoveryResumesRunning ==
  [][ \A gap \in RestartGaps :
        ( /\ Restart(gap, NoFault)
          /\ recoveryFound(localStorage, now + gap) = "restored"
          /\ ~localStorage.pt_recovery[1].isPaused )
        => /\ state'.activeTimer = localStorage.pt_recovery[1].activeTimer
           /\ state'.startTime = localStorage.pt_recovery[1].startTime
           /\ HandleLive' ]_vars

\* C5: a restart that finds no snapshot, or one last seen more than 24 hours
\* ago, leaves the recovery slot empty and the timer Idle with no tick
\* handler scheduled.
C5_RecoveryStaleness ==
  [][ \A gap \in RestartGaps :
        ( /\ Restart(gap, NoFault)
          /\ recoveryFound(localStorage, now + gap) \in {"absent", "stale"} )
        => /\ localStorage'.pt_recovery = << >>
           /\ Idle(state')
           /\ intervals' = {}
           /\ timeouts' = {} ]_vars

\* The last restart found a stale snapshot, and removed it.
C5_Witness ==
  /\ bootLog # << >>
  /\ bootLog[Len(bootLog)] = "stale"
  /\ localStorage.pt_recovery = << >>
  /\ Idle(state)
  /\ intervals = {}

\* What loadData reads from the local storage at startup.
Loaded == loadData([ st |-> initialState, ls |-> localStorage, iv |-> {},
                     to |-> {}, rnd |-> rnd ]).st

TodayDoc == loadFromAWS(s3, now, NoFault)

HasRepeatedId(seq) == ~UniqueIds(seq)

\* C6: merging the same remote day document a second time changes neither
\* the local projects nor the local sessions, and the merged lists hold no
\* id twice, also when the document itself repeats ids.
C6_MergeIdempotent ==
  LET once == mergeFromAWS(World, TodayDoc)
      twice == mergeFromAWS(once, TodayDoc)
  IN /\ twice.st.projects = once.st.projects
     /\ twice.st.sessions = once.st.sessions
     /\ UniqueIds(once.st.projects)
     /\ UniqueIds(once.st.sessions)

\* Two startups have merged a document that repeats a session id and a
\* project id.
C6_Witness ==
  /\ Len(bootLog) = 2
  /\ TodayDoc # << >>
  /\ HasRepeatedId(TodayDoc[1].sessions)
  /\ HasRepeatedId(TodayDoc[1].projects)
  /\ Ids(TodayDoc[1].sessions) \subseteq Ids(state.sessions)
  /\ Ids(TodayDoc[1].projects) \subseteq Ids(state.projects)
  /\ "rp1" \in Ids(state.projects)

\* C7: the merge at startup keeps every local session, with its fields and
\* its place in the log, and only appends remote sessions whose id no local
\* session has.
C7_MergeKeepsLocalSessions ==
  [][ \A gap \in RestartGaps :
        Restart(gap, NoFault) =>
          LET local == Loaded.sessions
              doc == loadFromAWS(s3, now + gap, NoFault)
          IN /\ IsPrefix(local, state'.sessions)
             /\ \A k \in (Len(local) + 1)..Len(state'.sessions) :
                  /\ doc # << >>
                  /\ \E j \in 1..Len(doc[1].sessions) :
                       doc[1].sessions[j] = state'.sessions[k]
                  /\ state'.sessions[k].id \notin Ids(local) ]_vars

\* A startup has merged a document holding another version of a local session
\* and a session the local log lacked.
C7_Witness ==
  /\ bootLog # << >>
  /\ TodayDoc # << >>
  /\ \E j \in 1..Len(TodayDoc[1].sessions) :
       /\ TodayDoc[1].sessions[j].id = LocalSession.id
       /\ TodayDoc[1].sessions[j] # LocalSession
  /\ \E i \in 1..Len(state.sessions) : state.sessions[i] = LocalSession
  /\ "r1" \in Ids(state.sessions)

LastWithId(seq, id) ==
  seq[CHOOSE j \in 1..Len(seq) :
        seq[j].id = id /\ \A k \in (j + 1)..Len(seq) : seq[k].id # id]

\* C8 (as stated): for each remote project, if no local project has its id
\* it is appended; if a local project has its id and another name or color,
\* the local entry becomes that remote project; local projects whose id the
\* document lacks are unchanged.
C8_RemoteWinsEachEntry ==
  [][ \A gap \in RestartGaps :
        ( /\ Restart(gap, NoFault)
          /\ loadFromAWS(s3, now + gap, NoFault) # << >> ) =>
          LET local == Loaded.projects
              remote == loadFromAWS(s3, now + gap, NoFault)[1].projects
              after == state'.projects
          IN /\ Len(after) >= Len(local)
             /\ \A j \in 1..Len(remote) :
                  LET li == IndexOfId(local, remote[j].id)
                  IN IF li = 0
                       THEN \E k \in (Len(local) + 1)..Len(after) :
                              after[k] = remote[j]
                       ELSE (local[li].name # remote[j].name \/
                             local[li].color # remote[j].color)
                              => after[li] = remote[j]
             /\ \A i \in 1..Len(local) :
                  local[i].id \notin Ids(remote) => after[i] = local[i] ]_vars

\* C8 (amended): the same, where of the remote entries that share an id the
\* last one counts: a new id is appended once, as its last remote entry; a
\* local project whose id the document has ends as the last remote entry of
\* that id; local projects whose id the document lacks are unchanged.
C8_RemoteWinsLastEntry ==
  [][ \A gap \in RestartGaps :
        ( /\ Restart(gap, NoFault)
          /\ loadFromAWS(s3, now + gap, NoFault) # << >> ) =>
          LET local == Loaded.projects
              remote == loadFromAWS(s3, now + gap, NoFault)[1].projects
              after == state'.projects
          IN /\ Len(after) = Len(local) +
                  Cardinality(Ids(remote) \ Ids(local))
             /\ UniqueIds(after)
             /\ \A j \in 1..Len(remote) :
                  LET li == IndexOfId(local, remote[j].id)
                      last == LastWithId(remote, remote[j].id)
                  IN IF li = 0
                       THEN \E k \in (Len(local) + 1)..Len(after) :
                              after[k] = last
                       ELSE after[li] = last
             /\ \A i \in 1..Len(local) :
                  local[i].id \notin Ids(remote) => after[i] = local[i] ]_vars

\* A startup has merged a document that renames a local project and brings a
\* new one: the local entry is the remote one and the new one is appended.
C8_Witness ==
  /\ bootLog # << >>
  /\ TodayDoc # << >>
  /\ \E j \in 1..Len(TodayDoc[1].projects) :
       /\ TodayDoc[1].projects[j].id = "proj1"
       /\ TodayDoc[1].projects[j].name = "Renamed"
       /\ state.projects[1] = TodayDoc[1].projects[j]
  /\ Len(state.projects) > 1
  /\ state.projects[2].id = "proj2"
  /\ state.projects[Len(state.projects)].id = "rp1"

\* C9: deleteProject(p) removes the project p and every session of p, keeps
\* every other project and session as it was, persists both lists, and stops
\* a timer running on p without recording a session.
C9_CascadeDelete ==
  [][ \A p \in Clickable :
        (DeleteProject(p) /\ p \in Ids(state.projects)) =>
          /\ p \notin Ids(state'.projects)
          /\ \A i \in 1..Len(state'.sessions) :
               state'.sessions[i].projectId # p
          /\ state'.projects = SelectSeq(state.projects, LAMBDA q : q.id # p)
          /\ state'.sessions =
               SelectSeq(state.sessions, LAMBDA x : x.projectId # p)
          /\ localStorage'.pt_projects = << state'.projects >>
          /\ localStorage'.pt_sessions = << state'.sessions >>
          /\ IF state.activeTimer = p
               THEN /\ Idle(state')
                    /\ ~HandleLive'
                    /\ localStorage'.pt_recovery = << >>
               ELSE /\ state'.activeTimer = state.activeTimer
                    /\ state'.startTime = state.startTime
                    /\ intervals' = intervals ]_vars

\* A project with a recorded session was deleted: it is gone, and so is every
\* session that was recorded.
C9_Witness ==
  /\ rnd >= 1
  /\ state.sessions = << >>
  /\ localStorage.pt_sessions = << << >> >>
  /\ "proj1" \notin Ids(state.projects)
  /\ "proj2" \in Ids(state.projects)

\* C10: there is never more than one live tick interval.
C10_OneTickHandler == Cardinality(intervals) <= 1

\* C11: every session the timer has recorded has endTime > startTime and a
\* duration equal to endTime - startTime in whole seconds (rounded down, up
\* or to the nearest second).
C11_DurationMatchesTimestamps ==
  \A i \in 1..Len(state.sessions) :
    LET s == state.sessions[i] IN
    /\ s.endTime > s.startTime
    /\ s.duration * Res - (s.endTime - s.startTime) < Res
    /\ (s.endTime - s.startTime) - s.duration * Res < Res

InRange(store, t) ==
  SelectSeq(store, LAMBDA d : /\ d.date >= getToday(t) - HistoryDays
                              /\ d.date <= getToday(t))

RECURSIVE SumOfLens(_)
SumOfLens(docs) ==
  IF docs = << >> THEN 0
  ELSE Len(Head(docs).sessions) + SumOfLens(Tail(docs))

\* C12: a range request over N stored day documents in [from, to] of which k
\* fail to load or parse succeeds with the sessions and projects of the N-k
\* good documents only, and filesLoaded = N-k.
C12_RangeCountsLoadedFiles ==
  [][ \A failing \in SUBSET StoredDates(s3) :
        LoadHistory(failing, NoFault) =>
          LET files == InRange(s3, now)
              good == SelectSeq(files, LAMBDA d : d.date \notin failing)
              body == reply'.value[1]
          IN /\ reply'.value # << >>
             /\ Len(body.sessions) = SumOfLens(good)
             /\ \A i \in 1..Len(good) :
                  /\ \A j \in 1..Len(good[i].sessions) :
                       \E k \in 1..Len(body.sessions) :
                         body.sessions[k] = good[i].sessions[j]
                  /\ Ids(good[i].projects) \subseteq Ids(body.projects)
             /\ \A k \in 1..Len(body.projects) :
                  \E i \in 1..Len(good) :
                    body.projects[k].id \in Ids(good[i].projects)
             /\ body.filesLoaded = Len(good) ]_vars

\* C13: what the caller of the single-day fetch receives after a transport
\* error, a non-2xx status or a body that is not JSON differs from what it
\* receives when the store has no document for the date (404).
C13_NotFoundDistinctFromFailure ==
  (reply.op = "loadFromAWS" /\ reply.fault # NoFault) =>
    reply.value # loadFromAWS(<< >>, now, NoFault)

\* C14: an upload, single-day fetch or range fetch that ends in a network
\* error, a non-2xx response or a malformed body leaves the local projects
\* and sessions, in memory and persisted, and the Active Timer state as they
\* were: after a failed upload or range fetch nothing local has changed, and a
\* startup whose fetch failed ends as a startup that found no document.
C14_FailedCallKeepsLocalData ==
  [][ \A fault \in Faults \ { NoFault } :
        /\ (SyncToAWS(fault) \/ LoadHistory({}, fault)) =>
             /\ state' = state
             /\ localStorage' = localStorage
             /\ intervals' = intervals
             /\ timeouts' = timeouts
        /\ Restart(3600 * Res, fault) =>
             /\ state'.projects = Loaded.projects
             /\ state'.sessions = Loaded.sessions
             /\ localStorage'.pt_projects = localStorage.pt_projects
             /\ localStorage'.pt_sessions = localStorage.pt_sessions
             /\ state' = init(localStorage, << >>, rnd, now + 3600 * Res,
                              NoFault).st ]_vars

\* A startup's fetch of today's document failed while the store held one;
\* the local log is there, in memory and persisted.
C14_Witness ==
  /\ reply.op = "loadFromAWS"
  /\ reply.fault = "status500"
  /\ TodayDoc # << >>
  /\ state.sessions = << LocalSession >>
  /\ localStorage.pt_sessions = << state.sessions >>
  /\ state.activeTimer = "proj1"

\* C15: no two entries of the local project list share an id, after any
\* sequence of addProject, deleteProject and merges of remote documents.
C15_ProjectIdsUnique == UniqueIds(state.projects)

\* C16: no entry of the local project list has the id "break", whether the
\* projects come from addProject or from merging a remote document.
C16_BreakIdReserved == "break" \notin Ids(state.projects)

RECURSIVE SumSeq(_)
SumSeq(q) == IF q = << >> THEN 0 ELSE Head(q) + SumSeq(Tail(q))

\* C19: for a session of duration D with whole-second start and end, the
\* amounts getStats attributes to the hour windows the session touches sum to
\* exactly D seconds, and each window's amount is between 0 and one hour.
\* (Read on a log whose only session of today lies inside the eight windows.)
C19_HourOverlapConservation ==
  \A i \in 1..Len(stats) :
    LET r == stats[i]
        x == r.todaySessions[1]
    IN ( /\ Len(r.todaySessions) = 1
         /\ x.startTime % Res = 0
         /\ x.endTime % Res = 0
         /\ x.duration * Res = x.endTime - x.startTime
         /\ x.startTime >= HourStart(now, 7)
         /\ x.endTime <= HourStart(now, 0) + 3600 * Res )
       => /\ SumSeq(r.hourlyData) * 60 = x.duration
          /\ \A k \in 1..8 : r.hourlyData[k] >= 0 /\ r.hourlyData[k] <= 60

\* C20: todayTotal is the sum of duration over the sessions dated today, and
\* weekTotal the sum over the sessions dated from today - 6 days to today.
C20_TodayAndWeekWindows ==
  [][ GetStats =>
        LET r == stats'[1]
            today == getToday(now)
        IN /\ r.todayTotal =
                SumDuration(SelectSeq(state.sessions,
                                      LAMBDA x : x.date = today))
           /\ r.weekTotal =
                SumDuration(SelectSeq(state.sessions,
                              LAMBDA x : /\ x.date >= today - 6
                                         /\ x.date <= today)) ]_vars

\* C18: startTimer(q) while a timer on another target is running or paused
\* records no session for the old run, whatever its elapsed time, cancels its
\* tick handler and leaves the timer on q, not paused, at elapsedSeconds = 0
\* with a live tick handler; startTimer(p) while paused on p does what
\* resumeTimer() does.
C18_StartReplacesActiveTimer ==
  [][ \A q \in Clickable :
        ( /\ state.activeTimer # Null
          /\ state.activeTimer # q \/ state.isPaused
          /\ state'.activeTimer = q
          /\ StartTimer(q) ) =>
          /\ (state.activeTimer \notin { Null, q }) =>
               /\ state'.sessions = state.sessions
               /\ localStorage'.pt_sessions = localStorage.pt_sessions
               /\ state'.activeTimer = q
               /\ ~state'.isPaused
               /\ state'.elapsedSeconds = 0
               /\ state'.startTime = now
               /\ HandleLive'
               /\ Cardinality(intervals') =
                    Cardinality({ i \in intervals :
                                    i.id # state.timerInterval }) + 1
          /\ (state.isPaused /\ state.activeTimer = q) =>
               /\ state' = resumeTimer(World, now).st
               /\ intervals' = resumeTimer(World, now).iv
               /\ localStorage' = resumeTimer(World, now).ls
               /\ state'.elapsedSeconds = state.elapsedSeconds
               /\ state'.sessions = state.sessions ]_vars

\* The timer was started on proj2 while a run on another target had reached
\* the minimum duration: that run is gone and nothing was recorded.
C18_Witness ==
  /\ discarded
  /\ state.activeTimer = "proj2"
  /\ state.startTime = now
  /\ state.elapsedSeconds = 0
  /\ ~state.isPaused
  /\ state.sessions = << >>
  /\ rnd = 0

\* C17: a session in the local log keeps its fields and its place whatever
\* the timer, the merge, the upload and the statistics do, and leaves the log
\* only through deleteProject of the project it references: every step either
\* extends the log or is a deleteProject(p) that removes exactly p's sessions.
C17_SessionsImmutable ==
  [][ \/ IsPrefix(state.sessions, state'.sessions)
      \/ \E p \in Ids(state.projects) :
           /\ DeleteProject(p)
           /\ state'.sessions =
                SelectSeq(state.sessions, LAMBDA x : x.projectId # p) ]_vars

\* After a merge that brought a session with the id of a local one, an
\* upload, a statistics call and the deletion of another project, the local
\* session is as it was.
C17_Witness ==
  /\ bootLog # << >>
  /\ stats # << >>
  /\ TodayDoc # << >>
  /\ \E j \in 1..Len(TodayDoc[1].sessions) :
       /\ TodayDoc[1].sessions[j].id = LocalSession.id
       /\ TodayDoc[1].sessions[j] # LocalSession
  /\ "proj2" \notin Ids(state.projects)
  /\ Len(state.sessions) >= 2
  /\ state.sessions[1] = LocalSession

\* What getStats() returns for the state after the step.
StatsAfter == getStats([ st |-> state' ], now')

\* C21: a stop that records a session of a project's run appends a session
\* with that project's id, type work, today's date and duration
\* elapsedSeconds, the log in memory and the persisted log are the same, and
\* todayTotal computed right after is the todayTotal before plus that
\* duration.
C21_RecordedSessionInStats ==
  [][ ( /\ state.activeTimer \notin { Null, "break" }
        /\ state.elapsedSeconds >= MinDuration
        /\ StopTimer ) =>
        LET last == state'.sessions[Len(state'.sessions)]
        IN /\ state'.sessions = Append(state.sessions, last)
           /\ last.projectId = state.activeTimer
           /\ last.type = "work"
           /\ last.date = getToday(now)
           /\ last.duration = state.elapsedSeconds
           /\ localStorage'.pt_sessions = << state'.sessions >>
           /\ StatsAfter.todayTotal =
                getStats(World, now).todayTotal + state.elapsedSeconds
           /\ \E k \in 1..Len(StatsAfter.todaySessions) :
                StatsAfter.todaySessions[k] = last ]_vars

\* A stop recorded a session of proj1 after the session the log held, and the
\* statistics read after it count both.
C21_Witness ==
  /\ Len(state.sessions) = 2
  /\ state.sessions[1] = LocalSession
  /\ state.sessions[2].projectId = "proj1"
  /\ state.sessions[2].type = "work"
  /\ state.sessions[2].duration >= MinDuration
  /\ localStorage.pt_sessions = << state.sessions >>
  /\ stats # << >>
  /\ stats[1].todayTotal =
       LocalSession.duration + state.sessions[2].duration

DocsOf(store, date) == SelectSeq(store, LAMBDA d : d.date = date)

\* C22: an upload that reaches the store leaves one document for today whose
\* date is today, whose sessions are exactly the local sessions dated today,
\* in their order, and whose projects are the whole local project list; the
\* documents of other days are as they were.
C22_UploadPayload ==
  [][ \A fault \in { NoFault, "badJson" } :
        SyncToAWS(fault) =>
          LET today == getToday(now)
              docs == DocsOf(s3', today)
          IN /\ Len(docs) = 1
             /\ docs[1].date = today
             /\ docs[1].sessions =
                  SelectSeq(state.sessions, LAMBDA x : x.date = today)
             /\ \A i \in 1..Len(docs[1].sessions) :
                  docs[1].sessions[i].date = today
             /\ docs[1].projects = state.projects
             /\ SelectSeq(s3', LAMBDA d : d.date # today) =
                  SelectSeq(s3, LAMBDA d : d.date # today) ]_vars

\* An upload succeeded from a log that holds a session of today and a session
\* of another day: the document holds the first and not the second.
C22_Witness ==
  /\ reply.op = "syncToAWS"
  /\ reply.fault = NoFault
  /\ TodayDoc # << >>
  /\ Len(TodayDoc[1].sessions) = 1
  /\ Len(state.sessions) = 2
  /\ \E i \in 1..2 : state.sessions[i].date # getToday(now)
  /\ TodayDoc[1].projects = DEFAULT_PROJECTS

LacksDate(req) ==
  IF req.method = "POST" THEN req.date = NoDate
  ELSE req.date = NoDate /\ (req.from = NoDate \/ req.to = NoDate)

\* C23: a GET with neither date nor a complete from/to pair, and a POST whose
\* body has no date, get an error response and leave the object store as it
\* was.
C23_ValidationBeforeSideEffect ==
  [][ ( /\ reply'.op = "request"
        /\ LacksDate(reply'.request)
        /\ Request(reply'.request, reply'.s3Fails) ) =>
        /\ reply'.value[1].statusCode >= 400
        /\ s3' = s3 ]_vars

GetDay(store, d) ==
  handler(store, [ method |-> "GET", date |-> d, from |-> NoDate,
                   to |-> NoDate, sessions |-> << >>, projects |-> << >> ],
          FALSE, now).response

\* C24: after a POST for day D that succeeded, GET for D answers 200 with the
\* date, sessions and projects of that POST, whatever was stored under D
\* before; a request that is not a successful POST for D leaves what GET for D
\* answers as it was; and GET for a day with no document answers 404 with no
\* document.
C24_DayStoreRoundTrip ==
  [][ ( /\ reply'.op = "request"
        /\ Request(reply'.request, reply'.s3Fails) ) =>
        LET req == reply'.request
            s3Fails == reply'.s3Fails
        IN
          /\ \A d \in ReqDates \ { NoDate } :
               IF req.method = "POST" /\ req.date = d /\ ~s3Fails
                 THEN /\ reply'.value[1].statusCode = 200
                      /\ GetDay(s3', d).statusCode = 200
                      /\ GetDay(s3', d).body =
                           << [ date |-> d, sessions |-> req.sessions,
                                projects |-> req.projects,
                                syncedAt |-> now ] >>
                      /\ Len(DocsOf(s3', d)) = 1
                 ELSE GetDay(s3', d) = GetDay(s3, d)
          /\ ( /\ req.method = "GET"
               /\ req.date # NoDate
               /\ req.from = NoDate \/ req.to = NoDate
               /\ ~s3Fails ) =>
               /\ reply'.value[1] = GetDay(s3, req.date)
               /\ IF DocsOf(s3, req.date) = << >>
                    THEN /\ reply'.value[1].statusCode = 404
                         /\ reply'.value[1].body = << >>
                    ELSE /\ reply'.value[1].statusCode = 200
                         /\ reply'.value[1].body = << DocsOf(s3, req.date)[1] >>
             ]_vars

\* Yesterday's document was replaced by a later POST, and a GET for yesterday
\* has answered with the later one.
C24_Witness ==
  /\ reply.op = "request"
  /\ reply.value[1].statusCode = 200
  /\ DocsOf(s3, getToday(Epoch0) - 31) # << >>
  /\ reply.value[1].body = DocsOf(s3, getToday(Epoch0) - 1)
  /\ Len(reply.value[1].body) = 1
  /\ reply.value[1].body[1].sessions = << LocalSession >>
  /\ reply.value[1].body[1].syncedAt = now
  /\ TodayDoc = << >>

\* C25: a tick that completes a run whose target is "break", paused and
\* resumed or not, records a session with projectId "break", type "break" and
\* the configured duration, and schedules the hold callback of a break, the
\* one that restores the default pomodoro duration.
C25_BreakTakesBreakPath ==
  [][ ( /\ state.activeTimer = "break"
        /\ state'.sessions # state.sessions
        /\ \E i \in intervals : Tick(i) ) =>
        LET last == state'.sessions[Len(state'.sessions)]
        IN /\ last.projectId = "break"
           /\ last.type = "break"
           /\ last.duration = state.pomodoroDuration
           /\ \E h \in timeouts' :
                /\ h.kind = "break"
                /\ h.due = now + HoldSeconds * Res
                /\ holdReset(World, h.kind).st.pomodoroDuration =
                     DefaultPomodoro ]_vars

\* C26: startBreak(d) while a project's timer is active records a work
\* session of that run iff its elapsedSeconds >= the minimum duration;
\* startBreak(d) while a break is active records nothing; either way the old
\* tick handler is cancelled and the timer is on "break", not paused, with
\* pomodoro mode on, duration d, remaining d and a live break tick handler.
C26_StartBreakStopRule ==
  [][ \A d \in BreakDurations :
        ( /\ ranUnits' = 0
          /\ now' = now
          /\ PomoBtn(d, "break") ) =>
          /\ IF state.activeTimer \notin { Null, "break" } /\
                state.elapsedSeconds >= MinDuration
               THEN /\ Len(state'.sessions) = Len(state.sessions) + 1
                    /\ IsPrefix(state.sessions, state'.sessions)
                    /\ LET last == state'.sessions[Len(state'.sessions)]
                       IN /\ last.projectId = state.activeTimer
                          /\ last.type = "work"
                          /\ last.duration = state.elapsedSeconds
                    /\ localStorage'.pt_sessions = << state'.sessions >>
               ELSE /\ state'.sessions = state.sessions
                    /\ localStorage'.pt_sessions = localStorage.pt_sessions
          /\ state.activeTimer # Null =>
               \A i \in intervals' : i.id # state.timerInterval \/
                                     i.id = state'.timerInterval
          /\ state'.activeTimer = "break"
          /\ ~state'.isPaused
          /\ state'.pomodoroMode
          /\ state'.pomodoroDuration = d
          /\ state'.pomodoroRemaining = d
          /\ state'.elapsedSeconds = 0
          /\ state'.startTime = now
          /\ \E i \in intervals' :
               i.id = state'.timerInterval /\ i.kind = "break" ]_vars

\* A break was started over a project's run that had reached the minimum
\* duration: the run is recorded as a work session that ends now, and the
\* break is running from now.
C26_Witness ==
  /\ state.activeTimer = "break"
  /\ state.startTime = now
  /\ ~state.isPaused
  /\ state.pomodoroRemaining = state.pomodoroDuration
  /\ state.pomodoroDuration \in BreakDurations
  /\ state.sessions # << >>
  /\ state.sessions[Len(state.sessions)].type = "work"
  /\ state.sessions[Len(state.sessions)].endTime = now
  /\ state.sessions[Len(state.sessions)].duration >= MinDuration

\* C27: a restart, less than 24 hours after the process ended with the timer
\* paused, restores the timer paused on the same target with the
\* elapsedSeconds frozen at the pause, and schedules no tick handler.
C27_PausedRecovery ==
  [][ \A gap \in { g \in RestartGaps : g < StaleSeconds * Res } :
        ( /\ state.activeTimer # Null
          /\ state.isPaused
          /\ Restart(gap, NoFault) ) =>
          /\ state'.activeTimer = state.activeTimer
          /\ state'.isPaused
          /\ state'.elapsedSeconds = state.pausedElapsed
          /\ state'.pausedElapsed = state.pausedElapsed
          /\ intervals' = {} ]_vars

\* C28: while a timer on any target, a project or "break", is running (not
\* paused), the recovery slot holds a snapshot of that target and startedAt.
C28_SnapshotWhileRunning ==
  (state.activeTimer # Null /\ ~state.isPaused) =>
    /\ localStorage.pt_recovery # << >>
    /\ localStorage.pt_recovery[1].activeTimer = state.activeTimer
    /\ localStorage.pt_recovery[1].startTime = state.startTime

\* C29: when a tick completes a pomodoro, the duration of the session it
\* records (the configured pomodoro duration) and the timer's elapsedSeconds
\* differ by at most one tick (one second).
C29_PomodoroRecordsRealizedTime ==
  [][ ( /\ state'.sessions # state.sessions
        /\ state'.sessions[Len(state'.sessions)].type = "pomodoro"
        /\ \E i \in intervals : Tick(i) ) =>
        LET last == state'.sessions[Len(state'.sessions)]
        IN /\ last.duration = state'.pomodoroDuration
           /\ last.duration - state'.elapsedSeconds <= 1
           /\ state'.elapsedSeconds - last.duration <= 1 ]_vars

C31_PausedFrozen ==
  /\ [] ( (state.activeTimer # Null /\ state.isPaused) =>
            state.elapsedSeconds = state.pausedElapsed )
  /\ [][ ( /\ state.activeTimer # Null
           /\ state.isPaused
           /\ \E i \in intervals : Tick(i) ) =>
           /\ state'.elapsedSeconds = state.elapsedSeconds
           /\ state'.pomodoroRemaining = state.pomodoroRemaining ]_vars

\* C32: pause() when Idle or already paused, resume() when Idle or not
\* paused, and stop() when Idle change nothing: the timer's fields, the tick
\* handlers, the pending resets, the session log and the recovery slot are
\* what they were.
C32_GuardedNoOps ==
  [][ ( \/ (state.activeTimer = Null \/ state.isPaused) /\ PauseTimer
        \/ (state.activeTimer = Null \/ ~state.isPaused) /\ ResumeTimer
        \/ state.activeTimer = Null /\ StopTimer ) =>
        UNCHANGED << state, intervals, timeouts, localStorage >> ]_vars

\* A project's timer, started or resumed after the first second of the
\* sitting, is paused after at least a second of running, with its snapshot
\* in the recovery slot and no tick handler: the state a second pause leaves
\* as it is.
C32_Witness ==
  /\ state.activeTimer = "proj1"
  /\ state.isPaused
  /\ state.pausedElapsed >= 1
  /\ state.elapsedSeconds = state.pausedElapsed
  /\ state.startTime > Epoch0
  /\ intervals = {}
  /\ localStorage.pt_recovery # << >>

\* C33: a run is recorded at most once.  While a target is set, ranUnits is
\* -1 exactly when the run on that target has already been recorded by its
\* completion and the reset of the display-hold has not fired yet: no step
\* taken then (a stop, a pause and resume, a start of a break) appends
\* another session.
C33_RunRecordedOnce ==
  [][ ( /\ state.activeTimer # Null
        /\ Len(state'.sessions) > Len(state.sessions) ) =>
        ranUnits >= 0 ]_vars

\* C34: when the timer has no target no tick interval is live, and a live
\* tick interval implies a target that is not paused and a startedAt that is
\* not null.
C34_IdleMeansNoTick ==
  /\ state.activeTimer = Null => intervals = {}
  /\ intervals # {} => /\ state.activeTimer # Null
                       /\ ~state.isPaused
                       /\ state.startTime # NullTime

\* C35: when the reset of a display-hold fires while a run started during
\* the hold is in progress (ranUnits >= 0: started afresh since the completion
\* and not recorded), the run keeps its target and its startedAt, and the
\* tick handlers are what they were.
C35_ResetSparesNewRun ==
  [][ \A h \in timeouts :
        ( /\ ranUnits >= 0
          /\ state.activeTimer # Null
          /\ HoldTimeout(h) ) =>
          /\ state'.activeTimer = state.activeTimer
          /\ state'.startTime = state.startTime
          /\ intervals' = intervals ]_vars

\* C36: every session a step appends has a projectId that is "break" or the
\* id of a project in the project list, never null, and a startTime that is
\* the timer's startedAt, which is not null.
C36_SessionHasValidTarget ==
  [][ Len(state'.sessions) > Len(state.sessions) =>
        LET last == state'.sessions[Len(state'.sessions)]
        IN /\ last.projectId # Null
           /\ \/ last.projectId = "break"
              \/ last.projectId \in ProjectIds(state.projects)
           /\ state.startTime # NullTime
           /\ last.startTime = state.startTime ]_vars

\* C37: whenever the timer has no target (at the start, after a stop, after
\* the reset that follows a pomodoro or break completion) the recovery slot is
\* empty.
C37_IdleMeansNoSnapshot ==
  state.activeTimer = Null => localStorage.pt_recovery = << >>

SessionIds == { generateId(n) : n \in 0..(MaxSessions - 1) }

InLog(id) == \E i \in 1..Len(state.sessions) : state.sessions[i].id = id

\* The session of the local log with this id is in the remote document of
\* its date.
BackedUp(id) ==
  \E i \in 1..Len(state.sessions) :
    /\ state.sessions[i].id = id
    /\ \E k \in 1..Len(s3) :
         /\ s3[k].date = state.sessions[i].date
         /\ \E j \in 1..Len(s3[k].sessions) :
              s3[k].sessions[j] = state.sessions[i]

\* A firing of the auto-sync is still ahead among those that are followed.
FiringAhead == NextAutoSync(now) <= Midnight + AutoSyncPeriod

AwaitsBackup(id) == InLog(id) /\ FiringAhead

C39_SessionIdsUnique == UniqueIds(state.sessions)

====
